---- MODULE Spec2Model ----
(***************************************************************************)
(* A model of the bounded-concurrency fetch/extract/retry engine:          *)
(*   - runWithConcurrency and processUrlBatch of the batch URL processor,  *)
(*     with fetchEmails / scrapeEmailsFromUrl / safeFetch / extractEmails; *)
(*   - the EmailScraper class (scrapeEmails, processSite, cancel);         *)
(*   - the two extractEmails functions applied to page bodies;             *)
(*   - safeFetch with its promise race and its two timers.                 *)
(*   - fetchWithTimeout and createCombinedAbortSignal of the EmailScraper; *)
(*   - scrapeEmailsFromSites and the module-level scraperInstance;         *)
(*   - fetchWebsites of the EComDataFinder component;                      *)
(*   - the POST /checkSite handler.                                        *)
(* JavaScript runs one task at a time: every action below is the code      *)
(* that runs between two suspension points (an await on a timer or on the  *)
(* network), with the promise continuations it triggers synchronously.     *)
(***************************************************************************)
EXTENDS Integers, Sequences, FiniteSets, TLC

\* ----------------------------------------------------------------- bounds
\* Largest items list handed to runWithConcurrency by the generic caller.
MaxItems == 4
\* Largest limit handed to runWithConcurrency by the generic caller.
MaxLimit == 3
\* Largest links list handed to processUrlBatch.
MaxLinks == 5
\* Largest batchSize option of processUrlBatch.
MaxBatchSize == 2
\* Largest concurrency option of processUrlBatch.
MaxConcurrency == 2
\* Largest number of links of one list whose url is empty or not http*.
MaxBadUrls == 1
\* Largest sites list handed to EmailScraper.scrapeEmails.
MaxSites == 2
\* Largest maxRetries passed to the EmailScraper constructor.
MaxRetriesCfg == 1
\* Largest concurrency of the EmailScraper.
MaxScConcurrency == 2
\* Largest number of words of a page body handed to the extractors.
MaxWords == 3
\* Largest number of safeFetch calls made side by side.
MaxCalls == 3
\* Largest number of fetchWithTimeout attempts made with one cancel signal.
MaxAttempts == 3
\* Largest number of scrapeEmailsFromSites calls made in one process.
MaxRuns == 2
\* Largest list of websites the /getWebsites endpoint answers with.
MaxRawSites == 2
\* Largest number of /checkSite requests handled side by side.
MaxChecks == 2

VARIABLES
    rwc,         \* one closure record per runWithConcurrency call, in call order
    hItems,      \* generic caller: the items argument
    hLimit,      \* generic caller: the limit argument
    hPc,         \* generic caller: "start" | "awaiting" | "resolved"
    hOut,        \* generic caller: the array the promise resolved with
    links,       \* processUrlBatch: the links argument (link ids, in input order)
    badUrls,     \* processUrlBatch: ids of links whose url is empty or not http*
    downHosts,   \* the network: ids of links whose host refuses every connection
    batchSize,   \* processUrlBatch: options.batchSize
    concurrency, \* processUrlBatch: options.concurrency
    pbPc,        \* processUrlBatch: "start" | "awaitRun" | "sleep" | "returned"
    pbI,         \* processUrlBatch: the loop variable i
    allResults,  \* processUrlBatch: allResults
    delays,      \* history: number of delayBetweenBatches waits begun
    sf,          \* safeFetch on its own: one record per call, its promise race,
                 \*   its request and its two timers
    cfgMaxRetries, \* EmailScraper: config.maxRetries as passed: <<>> (absent) or <<n>>
    maxRetries,  \* EmailScraper: this.config.maxRetries
    scConcurrency, \* EmailScraper: this.config.concurrency
    ctlAborted,  \* EmailScraper: this.controller.signal.aborted
    sites,       \* scrapeEmails: the sites argument (site ids, in input order)
    sePc,        \* scrapeEmails: "start" | "awaitAll" | "returned"
    seBatch,     \* scrapeEmails: number of the batch being awaited
    seResults,   \* scrapeEmails: results
    sPc,         \* processSite, per site: "unstarted" | "fetch" | "body" |
                 \*   "bodyStalled" | "retryWait" | "done"
    attempts,    \* processSite, per site: attempts
    sigAborted,  \* per site: the signal the attempt in flight was given is
                 \*   aborted (FALSE when none is in flight)
    fetches,     \* history, per site: number of fetch calls made
    sErr,        \* processSite, per site: what the catch block caught, while it
                 \*   waits to retry ("none" otherwise)
    onlyTimeouts, \* history, per site: every attempt so far ended in a timeout
    unstartedAtCancel, \* history: sites not yet started when cancel() was called
    cancelledBeforeRun, \* history: cancel() was called before scrapeEmails
    cfgExcludePatterns, \* EmailScraper: config.excludePatterns || []
    exHtml,      \* extractors on their own: the page body handed to them
    exDone,      \* extractors on their own: which of them have been applied
    exBatchOut,  \* extractors on their own: what extractEmails returned
    exScraperOut, \* extractors on their own: what EmailScraper.extractEmails returned
    cs,          \* fetchWithTimeout on its own: the cancel signal and one record
                 \*   per attempt (its timer, its two signals, its listeners)
    single,      \* scrapeEmailsFromSites: scraperInstance and the calls made
    ui,          \* EComDataFinder: its state hooks and fetchWebsites' position
    cks          \* POST /checkSite: one record per request being handled

scraperVars == <<cfgMaxRetries, maxRetries, scConcurrency, ctlAborted, sites, sePc,
                 seBatch, seResults, sPc, attempts, sigAborted, fetches,
                 sErr, onlyTimeouts, unstartedAtCancel, cancelledBeforeRun>>

extractVars == <<cfgExcludePatterns, exHtml, exDone, exBatchOut, exScraperOut>>

runnerVars == <<hItems, hLimit, hPc, hOut>>
batchVars == <<links, badUrls, downHosts, batchSize, concurrency, pbPc, pbI, allResults, delays>>

vars == <<rwc, runnerVars, batchVars, scraperVars, extractVars, sf, cs, single, ui, cks>>

\* The parts of the state a specification does not exercise stay as constructed.
BatchIdle ==
    /\ links = <<>>
    /\ badUrls = {}
    /\ downHosts = {}
    /\ batchSize = 1
    /\ concurrency = 1
    /\ pbPc = "start"
    /\ pbI = 0
    /\ allResults = <<>>
    /\ delays = 0

RunnerIdle ==
    /\ hItems = <<>>
    /\ hLimit = 1
    /\ hPc = "start"
    /\ hOut = <<>>

ScraperIdle ==
    /\ cfgMaxRetries = <<>>
    /\ maxRetries = 2
    /\ scConcurrency = 1
    /\ ctlAborted = FALSE
    /\ sites = <<>>
    /\ sePc = "start"
    /\ seBatch = 0
    /\ seResults = <<>>
    /\ sPc = <<>>
    /\ attempts = <<>>
    /\ sigAborted = <<>>
    /\ fetches = <<>>
    /\ sErr = <<>>
    /\ onlyTimeouts = <<>>
    /\ unstartedAtCancel = {}
    /\ cancelledBeforeRun = FALSE

ExtractIdle ==
    /\ cfgExcludePatterns = <<>>
    /\ exHtml = <<>>
    /\ exDone = {}
    /\ exBatchOut = <<>>
    /\ exScraperOut = <<>>

SafeFetchIdle == sf = <<>>

SignalIdle == cs = [cancel |-> FALSE, att |-> <<>>]

SingletonIdle == single = [instance |-> <<>>, calls |-> <<>>, ran |-> <<>>]

FinderIdle == ui = [pc |-> "unmounted"]

CheckSiteIdle == cks = <<>>

Min(a, b) == IF a < b THEN a ELSE b

\* ------------------------------------------------------- page text, emails
\* A word of a page is a sequence of characters; a page body is the sequence
\* of its whitespace-separated words.
W_contact == <<"c", "@", "g", ".", "t", "e">>
W_png == <<"l", "@", "2", ".", "p", "n", "g">>
W_jpg == <<"l", "@", "2", ".", "j", "p", "g">>
W_text == <<"h", "i">>
W_Contact == <<"C", "@", "g", ".", "t", "e">>
W_PNG == <<"l", "@", "2", ".", "P", "N", "G">>
W_info == <<"i", "@", "h", ".", "t", "e">>

Alpha == {"a", "b", "c", "e", "g", "h", "i", "j", "l", "n", "p", "t",
          "C", "G", "N", "P"}
Digit == {"2"}
LocalChar == Alpha \cup Digit \cup {".", "_", "%", "+", "-"}
DomainChar == Alpha \cup Digit \cup {".", "-"}

\* EMAIL_REGEX applied to one word: local part, "@", domain, ".", 2+ letters.
MatchesEmailRegex(w) ==
    \E at \in 2..Len(w) : \E dot \in (at + 2)..(Len(w) - 2) :
        /\ w[at] = "@"
        /\ w[dot] = "."
        /\ \A p \in 1..(at - 1) : w[p] \in LocalChar
        /\ \A p \in (at + 1)..(dot - 1) : w[p] \in DomainChar
        /\ \A p \in (dot + 1)..Len(w) : w[p] \in Alpha

\* text.match(EMAIL_REGEX) || []
RegexMatches(text) == SelectSeq(text, MatchesEmailRegex)

Includes(w, pat) ==
    \E s \in 0..(Len(w) - Len(pat)) : \A p \in 1..Len(pat) : w[s + p] = pat[p]

EndsWith(w, suf) ==
    /\ Len(w) >= Len(suf)
    /\ \A p \in 1..Len(suf) : w[Len(w) - Len(suf) + p] = suf[p]

Ext_png == <<".", "p", "n", "g">>
Ext_jpg == <<".", "j", "p", "g">>

\* [...new Set(xs)]: first occurrences, in order.
RECURSIVE Dedupe(_)
Dedupe(xs) ==
    IF xs = <<>> THEN <<>>
    ELSE LET rest == Dedupe(SubSeq(xs, 1, Len(xs) - 1))
             last == xs[Len(xs)]
         IN IF \E p \in 1..Len(rest) : rest[p] = last THEN rest ELSE Append(rest, last)

KeepEmail(email) ==
    Includes(email, <<"@">>) /\ ~EndsWith(email, Ext_png) /\ ~EndsWith(email, Ext_jpg)

\* extractEmails of the batch processor.
extractEmails(text) == Dedupe(SelectSeq(RegexMatches(text), KeepEmail))

\* The page bodies a host may serve.
Bodies == { <<W_text>>,
            <<W_contact, W_png, W_contact>>,
            <<W_png, W_jpg, W_text>> }

\* ----------------------------------------------------- runWithConcurrency
\* The closure of one call: results, activeCount, index, and where each
\* runNext worker (one per item position) stands.
NewRun(its, lim) ==
    [items |-> its, limit |-> lim, index |-> 0, activeCount |-> 0,
     results |-> <<>>, resolved |-> 0,
     hpc |-> [k \in 1..Len(its) |-> "unstarted"],
     loc |-> [k \in 1..Len(its) |-> <<>>]]

\* runNext resolving as soon as no item is left to admit, whether or not
\* handlers are still active.
RunNextResolvesEarly(r) ==
    IF r.index >= Len(r.items)
    THEN [r EXCEPT !.resolved = @ + 1]
    ELSE [r EXCEPT !.index = @ + 1,
                   !.activeCount = @ + 1,
                   !.hpc[r.index + 1] = "delay"]

\* runNext up to its first await: resolve or admit the next item.
RunNext(r) ==
    IF r.index >= Len(r.items)
    THEN IF r.activeCount = 0 THEN [r EXCEPT !.resolved = @ + 1] ELSE r
    ELSE [r EXCEPT !.index = @ + 1,
                   !.activeCount = @ + 1,
                   !.hpc[r.index + 1] = "delay"]

\* One initial worker per item, the limit forgotten.
InitialWorkersUnlimited(r) == Len(r.items)

\* const initialWorkers = Math.min(limit, items.length)
InitialWorkers(r) == Min(r.limit, Len(r.items))

RECURSIVE StartWorkers(_, _)
StartWorkers(r, n) == IF n = 0 THEN r ELSE StartWorkers(RunNext(r), n - 1)

\* The call itself: the promise executor runs synchronously.
RunWithConcurrency(its, lim) ==
    LET r == NewRun(its, lim) IN StartWorkers(r, InitialWorkers(r))

\* The finally block giving the slot back without calling runNext.
FinallyWithoutRunNext(r) == [r EXCEPT !.activeCount = @ - 1]

\* The finally block calling runNext twice.
FinallyRunsNextTwice(r) == RunNext(RunNext([r EXCEPT !.activeCount = @ - 1]))

\* finally { activeCount--; runNext(); }
Finally(r) == RunNext([r EXCEPT !.activeCount = @ - 1])

\* The handler's promise fulfilled with val: results.push(result), finally.
HandlerReturned(r, k, val) ==
    Finally([r EXCEPT !.results = Append(@, val), !.hpc[k] = "done"])

\* The catch block logging and the slot never given back.
HandlerThrewKeepsSlot(r, k) == [r EXCEPT !.hpc[k] = "done"]

\* The handler's promise rejected: the catch logs, then finally.
HandlerThrew(r, k) == Finally([r EXCEPT !.hpc[k] = "done"])

Running(r) == {k \in 1..Len(r.items) : r.hpc[k] \notin {"unstarted", "done"}}

\* ------------------------------------------- a generic caller of the runner
Range(s) == {s[p] : p \in 1..Len(s)}

H_Call ==
    /\ hPc = "start"
    /\ rwc' = Append(rwc, RunWithConcurrency(hItems, hLimit))
    /\ hPc' = "awaiting"
    /\ UNCHANGED <<hItems, hLimit, hOut>>
    /\ UNCHANGED <<batchVars, scraperVars, extractVars, sf, cs, single, ui, cks>>

\* await delay(Math.random() * 200) is over: the handler is invoked.
H_JitterElapsed(k) ==
    /\ hPc = "awaiting"
    /\ rwc[1].hpc[k] = "delay"
    /\ rwc' = [rwc EXCEPT ![1].hpc[k] = "handler"]
    /\ UNCHANGED <<runnerVars, batchVars, scraperVars, extractVars, sf, cs, single, ui, cks>>

H_HandlerReturns(k) ==
    /\ hPc = "awaiting"
    /\ rwc[1].hpc[k] = "handler"
    /\ rwc' = [rwc EXCEPT ![1] = HandlerReturned(@, k, rwc[1].items[k])]
    /\ UNCHANGED <<runnerVars, batchVars, scraperVars, extractVars, sf, cs, single, ui, cks>>

H_HandlerThrows(k) ==
    /\ hPc = "awaiting"
    /\ rwc[1].hpc[k] = "handler"
    /\ rwc' = [rwc EXCEPT ![1] = HandlerThrew(@, k)]
    /\ UNCHANGED <<runnerVars, batchVars, scraperVars, extractVars, sf, cs, single, ui, cks>>

\* The handler's promise never settles: the worker keeps its slot.
H_HandlerStalls(k) ==
    /\ hPc = "awaiting"
    /\ rwc[1].hpc[k] = "handler"
    /\ rwc' = [rwc EXCEPT ![1].hpc[k] = "stalled"]
    /\ UNCHANGED <<runnerVars, batchVars, scraperVars, extractVars, sf, cs, single, ui, cks>>

\* The caller's await on the returned promise continues.
H_Resolved ==
    /\ hPc = "awaiting"
    /\ rwc[1].resolved > 0
    /\ hPc' = "resolved"
    /\ hOut' = rwc[1].results
    /\ UNCHANGED <<rwc, hItems, hLimit>>
    /\ UNCHANGED <<batchVars, scraperVars, extractVars, sf, cs, single, ui, cks>>

InitRunner ==
    /\ rwc = <<>>
    /\ \E n \in 0..MaxItems : hItems = [k \in 1..n |-> k]
    /\ hLimit \in 1..MaxLimit
    /\ hPc = "start"
    /\ hOut = <<>>
    /\ BatchIdle
    /\ ScraperIdle
    /\ ExtractIdle
    /\ SafeFetchIdle
    /\ SignalIdle
    /\ SingletonIdle
    /\ FinderIdle
    /\ CheckSiteIdle

NextRunner ==
    \/ H_Call
    \/ \E k \in 1..Len(hItems) : H_JitterElapsed(k)
    \/ \E k \in 1..Len(hItems) : H_HandlerReturns(k)
    \/ \E k \in 1..Len(hItems) : H_HandlerThrows(k)
    \/ \E k \in 1..Len(hItems) : H_HandlerStalls(k)
    \/ H_Resolved

SpecRunner == InitRunner /\ [][NextRunner]_vars

\* ---------------------------------------------------- safeFetch on its own
\* One call of safeFetch: pc is where the caller stands, fetch the state of
\* the request, race the timer of timeoutPromise(5000), abort the 15 s timer
\* that calls controller.abort(), and out what safeFetch returned.
NotCalled ==
    [pc |-> "idle", fetch |-> "none", race |-> "off", abort |-> "off", out |-> "none"]

\* timeoutPromise(5000) wins the race: the catch block logs and returns null.
\* It does not touch the controller, so the request goes on.
TimedOut(c) ==
    [c EXCEPT !.pc = "returned", !.race = "fired", !.out = "timedOut"]

\* safeFetch(url) up to its await: both timers armed, the request sent.
F_Call(n) ==
    /\ sf[n].pc = "idle"
    /\ sf' = [sf EXCEPT ![n] = [pc |-> "racing", fetch |-> "pending", race |-> "armed",
                                 abort |-> "armed", out |-> "none"]]
    /\ UNCHANGED <<rwc, runnerVars, batchVars, scraperVars, extractVars, cs, single, ui, cks>>

\* fetch fulfils first: clearTimeout(timeoutId), the response is returned.
\* The timer of timeoutPromise stays armed.
F_Response(n) ==
    /\ sf[n].pc = "racing"
    /\ sf' = [sf EXCEPT ![n].pc = "returned", ![n].fetch = "responded",
                         ![n].abort = "cleared", ![n].out = "response"]
    /\ UNCHANGED <<rwc, runnerVars, batchVars, scraperVars, extractVars, cs, single, ui, cks>>

\* fetch rejects first: the catch block returns null. Neither timer is cleared.
F_FetchFails(n) ==
    /\ sf[n].pc = "racing"
    /\ sf' = [sf EXCEPT ![n].pc = "returned", ![n].fetch = "failed", ![n].out = "failed"]
    /\ UNCHANGED <<rwc, runnerVars, batchVars, scraperVars, extractVars, cs, single, ui, cks>>

\* The 5 s timer fires: while the race is on, safeFetch gives up; after it,
\* the rejection goes unused.
F_RaceTimerFires(n) ==
    /\ sf[n].race = "armed"
    /\ sf' = [sf EXCEPT ![n] = IF sf[n].pc = "racing" THEN TimedOut(@)
                                ELSE [@ EXCEPT !.race = "fired"]]
    /\ UNCHANGED <<rwc, runnerVars, batchVars, scraperVars, extractVars, cs, single, ui, cks>>

\* The 15 s timer, armed together with the 5 s one and so due after it,
\* fires: controller.abort() ends the request if it is still pending.
F_AbortTimerFires(n) ==
    /\ sf[n].abort = "armed"
    /\ sf[n].race = "fired"
    /\ sf' = [sf EXCEPT ![n].abort = "fired",
                         ![n].fetch = IF @ = "pending" THEN "aborted" ELSE @]
    /\ UNCHANGED <<rwc, runnerVars, batchVars, scraperVars, extractVars, cs, single, ui, cks>>

\* A request safeFetch no longer awaits ends by itself: the host answers
\* late or drops the connection.
F_LateSettle(n, how) ==
    /\ sf[n].pc = "returned"
    /\ sf[n].fetch = "pending"
    /\ sf' = [sf EXCEPT ![n].fetch = how]
    /\ UNCHANGED <<rwc, runnerVars, batchVars, scraperVars, extractVars, cs, single, ui, cks>>

InitSafeFetch ==
    /\ \E n \in 1..MaxCalls : sf = [k \in 1..n |-> NotCalled]
    /\ rwc = <<>>
    /\ RunnerIdle
    /\ BatchIdle
    /\ ScraperIdle
    /\ ExtractIdle
    /\ SignalIdle
    /\ SingletonIdle
    /\ FinderIdle
    /\ CheckSiteIdle

NextSafeFetch ==
    \/ \E n \in 1..Len(sf) : F_Call(n)
    \/ \E n \in 1..Len(sf) : F_Response(n)
    \/ \E n \in 1..Len(sf) : F_FetchFails(n)
    \/ \E n \in 1..Len(sf) : F_RaceTimerFires(n)
    \/ \E n \in 1..Len(sf) : F_AbortTimerFires(n)
    \/ \E n \in 1..Len(sf) : \E how \in {"responded", "failed"} : F_LateSettle(n, how)

SpecSafeFetch == InitSafeFetch /\ [][NextSafeFetch]_vars

\* --------------------------------------------------------- processUrlBatch
\* links.slice(from, to), 0-based and end-exclusive as in JavaScript.
Slice(xs, from, to) == SubSeq(xs, from + 1, Min(to, Len(xs)))

\* The loop stepping one past the chunk it has just sliced.
NextISkipsOne(iv) == iv + batchSize + 1

\* i += batchSize
NextI(iv) == iv + batchSize

\* Every result kept, the emails.length test forgotten.
KeepEverything(rs) == rs

\* batchResults.forEach: keep the results that hold an email.
RECURSIVE KeepWithEmails(_)
KeepWithEmails(rs) ==
    IF rs = <<>> THEN <<>>
    ELSE LET head == KeepWithEmails(SubSeq(rs, 1, Len(rs) - 1))
             r == rs[Len(rs)]
         IN IF Len(r.emails) > 0 THEN Append(head, r) ELSE head

\* A pause after every chunk, the last one included.
PauseAfterEveryChunk(iv) == TRUE

\* if (i + batchSize < links.length): a pause follows this chunk.
MoreChunks(iv) == iv + batchSize < Len(links)

\* The chunk's entries put in front of the earlier chunks' entries.
UnshiftAll(all, kept) == kept \o all

\* The chunk's entries taking the place of the earlier chunks' entries.
KeepLastChunkOnly(all, kept) == kept

\* allResults.push(result), for each kept result in turn.
PushAll(all, kept) == all \o kept

\* Every url taken as fetchable.
AnyUrlValid(l) == TRUE

\* !(!url || !url.startsWith('http'))
ValidUrl(l) == l \notin badUrls

\* The for loop's test with i = iv, then the body up to its first await.
EnterLoop(iv) ==
    /\ pbI' = iv
    /\ IF iv < Len(links)
       THEN /\ rwc' = Append(rwc, RunWithConcurrency(Slice(links, iv, iv + batchSize),
                                                     concurrency))
            /\ pbPc' = "awaitRun"
       ELSE /\ pbPc' = "returned"
            /\ UNCHANGED rwc

PB_Call ==
    /\ pbPc = "start"
    /\ EnterLoop(0)
    /\ UNCHANGED <<links, badUrls, downHosts, batchSize, concurrency, allResults, delays>>
    /\ UNCHANGED <<runnerVars, scraperVars, extractVars, sf, cs, single, ui, cks>>

\* The await on runWithConcurrency continues: filter, then pause or loop.
PB_ChunkDone ==
    /\ pbPc = "awaitRun"
    /\ rwc[Len(rwc)].resolved > 0
    /\ allResults' = PushAll(allResults, KeepWithEmails(rwc[Len(rwc)].results))
    /\ IF MoreChunks(pbI)
       THEN /\ pbPc' = "sleep"
            /\ delays' = delays + 1
            /\ UNCHANGED <<rwc, pbI>>
       ELSE /\ EnterLoop(NextI(pbI))
            /\ UNCHANGED delays
    /\ UNCHANGED <<links, badUrls, downHosts, batchSize, concurrency>>
    /\ UNCHANGED <<runnerVars, scraperVars, extractVars, sf, cs, single, ui, cks>>

\* The delayBetweenBatches timer fires.
PB_PauseElapsed ==
    /\ pbPc = "sleep"
    /\ EnterLoop(NextI(pbI))
    /\ UNCHANGED <<links, badUrls, downHosts, batchSize, concurrency, allResults, delays>>
    /\ UNCHANGED <<runnerVars, scraperVars, extractVars, sf, cs, single, ui, cks>>

\* The handler of processUrlBatch fulfils with {title, link, emails}: it
\* cannot reject, fetchEmails and scrapeEmailsFromUrl catch everything.
Complete(c, k, emails) ==
    /\ rwc' = [rwc EXCEPT ![c] =
                 HandlerReturned(@, k, [link |-> rwc[c].items[k], emails |-> emails])]
    /\ UNCHANGED <<batchVars, scraperVars, extractVars, sf, cs, single, ui, cks>>
    /\ UNCHANGED runnerVars

Stage(c, k, st) ==
    /\ c \in 1..Len(rwc)
    /\ k \in 1..Len(rwc[c].items)
    /\ rwc[c].hpc[k] = st

\* The jitter delay is over: handler -> fetchEmails -> scrapeEmailsFromUrl,
\* which returns [] for a bad url and otherwise awaits safeFetch's race.
B_JitterElapsed(c, k) ==
    /\ Stage(c, k, "delay")
    /\ IF ~ValidUrl(rwc[c].items[k])
       THEN Complete(c, k, <<>>)
       ELSE /\ rwc' = [rwc EXCEPT ![c].hpc[k] = "fetch"]
            /\ UNCHANGED <<batchVars, scraperVars, extractVars, sf, cs, single, ui, cks>>
            /\ UNCHANGED runnerVars

\* fetch fulfils before timeoutPromise(5000): a non-2xx response gives [],
\* a 2xx response is read with res.text(). A host that is down sends none.
B_Response(c, k, ok) ==
    /\ Stage(c, k, "fetch")
    /\ rwc[c].items[k] \notin downHosts
    /\ IF ok
       THEN /\ rwc' = [rwc EXCEPT ![c].hpc[k] = "body"]
            /\ UNCHANGED <<batchVars, scraperVars, extractVars, sf, cs, single, ui, cks>>
            /\ UNCHANGED runnerVars
       ELSE Complete(c, k, <<>>)

\* fetch rejects (socket error, terminated, ...): safeFetch returns null.
B_FetchError(c, k) ==
    /\ Stage(c, k, "fetch")
    /\ Complete(c, k, <<>>)

\* timeoutPromise(5000) rejects first: safeFetch returns null.
B_FetchTimeout(c, k) ==
    /\ Stage(c, k, "fetch")
    /\ Complete(c, k, <<>>)

\* res.text() fulfils: extractEmails, then the metadata scrape is awaited.
B_BodyRead(c, k, text) ==
    /\ Stage(c, k, "body")
    /\ rwc' = [rwc EXCEPT ![c].hpc[k] = "scrape", ![c].loc[k] = extractEmails(text)]
    /\ UNCHANGED <<batchVars, scraperVars, extractVars, sf, cs, single, ui, cks>>
    /\ UNCHANGED runnerVars

\* res.text() rejects.
B_BodyFails(c, k) ==
    /\ Stage(c, k, "body")
    /\ Complete(c, k, <<>>)

\* The host stops sending after the headers: safeFetch has cleared its abort
\* timer, so res.text() stays pending and nothing settles it.
B_BodyStalls(c, k) ==
    /\ Stage(c, k, "body")
    /\ rwc' = [rwc EXCEPT ![c].hpc[k] = "stalled"]
    /\ UNCHANGED <<batchVars, scraperVars, extractVars, sf, cs, single, ui, cks>>
    /\ UNCHANGED runnerVars

\* scrape(...) settles; a rejection is swallowed. The emails are returned.
B_ScrapeSettles(c, k) ==
    /\ Stage(c, k, "scrape")
    /\ Complete(c, k, rwc[c].loc[k])

InitBatch ==
    /\ rwc = <<>>
    /\ \E n \in 0..MaxLinks : links = [k \in 1..n |-> k]
    /\ badUrls \in {b \in SUBSET Range(links) : Cardinality(b) <= MaxBadUrls}
    /\ downHosts = {}
    /\ batchSize \in 1..MaxBatchSize
    /\ concurrency \in 1..MaxConcurrency
    /\ pbPc = "start"
    /\ pbI = 0
    /\ allResults = <<>>
    /\ delays = 0
    /\ RunnerIdle
    /\ ScraperIdle
    /\ ExtractIdle
    /\ SafeFetchIdle
    /\ SignalIdle
    /\ SingletonIdle
    /\ FinderIdle
    /\ CheckSiteIdle

Calls == 1..Len(rwc)

Positions(c) == 1..Len(rwc[c].items)

NextBatch ==
    \/ PB_Call
    \/ PB_ChunkDone
    \/ PB_PauseElapsed
    \/ \E c \in Calls : \E k \in Positions(c) : B_JitterElapsed(c, k)
    \/ \E c \in Calls : \E k \in Positions(c) : \E ok \in BOOLEAN : B_Response(c, k, ok)
    \/ \E c \in Calls : \E k \in Positions(c) : B_FetchError(c, k)
    \/ \E c \in Calls : \E k \in Positions(c) : B_FetchTimeout(c, k)
    \/ \E c \in Calls : \E k \in Positions(c) : \E text \in Bodies : B_BodyRead(c, k, text)
    \/ \E c \in Calls : \E k \in Positions(c) : B_BodyFails(c, k)
    \/ \E c \in Calls : \E k \in Positions(c) : B_BodyStalls(c, k)
    \/ \E c \in Calls : \E k \in Positions(c) : B_ScrapeSettles(c, k)

SpecBatch == InitBatch /\ [][NextBatch]_vars

\* processUrlBatch with every url well formed and the host of one link down:
\* every fetch of that link fails.
InitBatchDown ==
    /\ rwc = <<>>
    /\ \E n \in 1..MaxLinks : links = [k \in 1..n |-> k]
    /\ badUrls = {}
    /\ \E l \in Range(links) : downHosts = {l}
    /\ batchSize \in 1..MaxBatchSize
    /\ concurrency \in 1..MaxConcurrency
    /\ pbPc = "start"
    /\ pbI = 0
    /\ allResults = <<>>
    /\ delays = 0
    /\ RunnerIdle
    /\ ScraperIdle
    /\ ExtractIdle
    /\ SafeFetchIdle
    /\ SignalIdle
    /\ SingletonIdle
    /\ FinderIdle
    /\ CheckSiteIdle

SpecBatchDown == InitBatchDown /\ [][NextBatch]_vars

\* ------------------------------------------------------------ EmailScraper
\* config.maxRetries || 2: an absent value and 0 both give the default.
DefaultMaxRetries == 2

EffectiveMaxRetries(cfg) == IF cfg = <<>> \/ cfg[1] = 0 THEN DefaultMaxRetries ELSE cfg[1]

\* chunkArray putting the whole array into one chunk, whatever the size.
chunkArrayOneChunk(array, size) == IF array = <<>> THEN <<>> ELSE <<array>>

\* chunkArray(array, size)
RECURSIVE chunkArray(_, _)
chunkArray(array, size) ==
    IF array = <<>> THEN <<>>
    ELSE LET n == Min(size, Len(array))
         IN <<SubSeq(array, 1, n)>> \o chunkArray(SubSeq(array, n + 1, Len(array)), size)

\* const batches = this.chunkArray(sites, this.config.concurrency)
Batches == chunkArray(sites, scConcurrency)

SiteIds == 1..Len(sites)

\* EMAIL_EXCLUSIONS
EMAIL_EXCLUSIONS ==
    << <<".", "p", "n", "g">>, <<".", "j", "p", "g">>, <<".", "g", "i", "f">>,
       <<".", "j", "p", "e", "g">>, <<".", "w", "e", "b", "p">>,
       <<"e", "x", "a", "m", "p", "l", "e", ".", "c", "o", "m">>,
       <<"d", "o", "m", "a", "i", "n", ".", "c", "o", "m">>,
       <<"y", "o", "u", "r", "d", "o", "m", "a", "i", "n">>,
       <<"@", "e", "x", "a", "m", "p", "l", "e">>, <<"@", "t", "e", "s", "t">>,
       <<"@", "s", "a", "m", "p", "l", "e">>,
       <<"e", "m", "a", "i", "l", "@">>, <<"u", "s", "e", "r", "@">> >>

\* The configured list taking the place of the built-in one.
ExcludePatternsReplaced ==
    IF cfgExcludePatterns = <<>> THEN EMAIL_EXCLUSIONS ELSE cfgExcludePatterns

\* this.config.excludePatterns: the built-in list, then the configured one.
excludePatterns == EMAIL_EXCLUSIONS \o cfgExcludePatterns

LowerOf(ch) ==
    CASE ch = "C" -> "c"
      [] ch = "G" -> "g"
      [] ch = "N" -> "n"
      [] ch = "P" -> "p"
      [] OTHER -> ch

toLowerCase(w) == [p \in 1..Len(w) |-> LowerOf(w[p])]

NotExcluded(email) ==
    /\ Includes(email, <<"@">>)
    /\ \A q \in 1..Len(excludePatterns) :
        ~Includes(toLowerCase(email), toLowerCase(excludePatterns[q]))

\* EmailScraper.extractEmails
ScraperExtractEmails(html) == SelectSeq(Dedupe(RegexMatches(html)), NotExcluded)

\* ------------------------------------------- the extractors on their own
\* The words a page body may be made of.
Vocabulary == {W_contact, W_Contact, W_png, W_PNG, W_jpg, W_text, W_info}

PageBodies == UNION {[1..n -> Vocabulary] : n \in 0..MaxWords}

\* The excludePatterns a caller may pass in the config.
ExcludeConfigs == { <<>>, << <<"@", "g">> >>, << <<"@", "G">> >> }

\* extractEmails(htmlText) of the batch processor.
EX_BatchExtract ==
    /\ "batch" \notin exDone
    /\ exBatchOut' = extractEmails(exHtml)
    /\ exDone' = exDone \cup {"batch"}
    /\ UNCHANGED <<cfgExcludePatterns, exHtml, exScraperOut>>
    /\ UNCHANGED <<rwc, runnerVars, batchVars, scraperVars, sf, cs, single, ui, cks>>

\* this.extractEmails(html) of the EmailScraper.
EX_ScraperExtract ==
    /\ "scraper" \notin exDone
    /\ exScraperOut' = ScraperExtractEmails(exHtml)
    /\ exDone' = exDone \cup {"scraper"}
    /\ UNCHANGED <<cfgExcludePatterns, exHtml, exBatchOut>>
    /\ UNCHANGED <<rwc, runnerVars, batchVars, scraperVars, sf, cs, single, ui, cks>>

InitExtract ==
    /\ cfgExcludePatterns \in ExcludeConfigs
    /\ exHtml \in PageBodies
    /\ exDone = {}
    /\ exBatchOut = <<>>
    /\ exScraperOut = <<>>
    /\ rwc = <<>>
    /\ RunnerIdle
    /\ BatchIdle
    /\ ScraperIdle
    /\ SafeFetchIdle
    /\ SignalIdle
    /\ SingletonIdle
    /\ FinderIdle
    /\ CheckSiteIdle

NextExtract ==
    \/ EX_BatchExtract
    \/ EX_ScraperExtract

SpecExtract == InitExtract /\ [][NextExtract]_vars

\* ------------------------------------------------- EmailScraper, continued
Aborted(s) == sigAborted[s]

\* How an attempt's end enters the history.
Record(s, outcome) ==
    onlyTimeouts' = [onlyTimeouts EXCEPT ![s] = @ /\ outcome = "timeout"]

\* error.message of what an attempt throws: the per-attempt timer and
\* cancel() both abort with the default reason, an AbortError.
Message(cause) ==
    CASE cause = "http" -> "HTTP error"
      [] cause = "timeout" -> "aborted"
      [] cause = "cancelled" -> "aborted"
      [] cause = "network" -> "fetch failed"
      [] cause = "body" -> "body failed"

\* processSite resolves with res; the .then of scrapeEmails pushes it.
Settle(s, res) ==
    /\ sPc' = [sPc EXCEPT ![s] = "done"]
    /\ seResults' = Append(seResults, [url |-> sites[s]] @@ res)

\* The catch block of processSite for an error of this cause.
Catch(s, cause) ==
    /\ attempts' = [attempts EXCEPT ![s] = @ + 1]
    /\ IF attempts[s] + 1 > maxRetries
       THEN /\ Settle(s, [success |-> FALSE, emails |-> <<>>, error |-> Message(cause)])
            /\ UNCHANGED sErr
       ELSE /\ sPc' = [sPc EXCEPT ![s] = "retryWait"]
            /\ sErr' = [sErr EXCEPT ![s] = cause]
            /\ UNCHANGED seResults
    /\ sigAborted' = [sigAborted EXCEPT ![s] = FALSE]
    /\ Record(s, cause)
    /\ UNCHANGED <<cfgMaxRetries, maxRetries, scConcurrency, ctlAborted, sites, sePc,
                   seBatch, fetches, unstartedAtCancel,
                   cancelledBeforeRun>>
    /\ UNCHANGED <<rwc, runnerVars, batchVars, extractVars, sf, cs, single, ui, cks>>

\* for (const batch of batches): every site of batch b calls processSite, which
\* runs to its first fetch; past the last batch scrapeEmails returns.
EnterBatch(b) ==
    /\ seBatch' = b
    /\ IF b <= Len(Batches)
       THEN LET starting == Range(Batches[b])
            IN /\ sePc' = "awaitAll"
               /\ sPc' = [s \in SiteIds |-> IF s \in starting THEN "fetch" ELSE sPc[s]]
               /\ sigAborted' = [s \in SiteIds |-> IF s \in starting THEN ctlAborted
                                                   ELSE sigAborted[s]]
               /\ fetches' = [s \in SiteIds |-> IF s \in starting THEN fetches[s] + 1
                                                ELSE fetches[s]]
       ELSE /\ sePc' = "returned"
            /\ UNCHANGED <<sPc, sigAborted, fetches>>
    /\ UNCHANGED <<cfgMaxRetries, maxRetries, scConcurrency, ctlAborted, sites,
                   seResults, attempts, sErr, onlyTimeouts,
                   unstartedAtCancel,
                   cancelledBeforeRun>>
    /\ UNCHANGED <<rwc, runnerVars, batchVars, extractVars, sf, cs, single, ui, cks>>

SE_Call ==
    /\ sePc = "start"
    /\ EnterBatch(1)

\* await Promise.all(batchPromises) continues.
SE_BatchDone ==
    /\ sePc = "awaitAll"
    /\ \A s \in Range(Batches[seBatch]) : sPc[s] = "done"
    /\ EnterBatch(seBatch + 1)

InFlight(s) == sPc[s] \in {"fetch", "body", "bodyStalled"}

\* cancel() keeping the controller it has just aborted.
ControllerKeptAborted == TRUE

\* new AbortController().signal.aborted
FreshControllerAborted == FALSE

\* cancel(): abort the current controller, whose signal every attempt in
\* flight listens to, then install a fresh one.
Cancel ==
    /\ sePc \in {"start", "awaitAll"}
    /\ sigAborted' = [s \in SiteIds |-> sigAborted[s] \/ InFlight(s)]
    /\ ctlAborted' = FreshControllerAborted
    /\ unstartedAtCancel' =
         IF sePc = "awaitAll"
         THEN unstartedAtCancel \cup {s \in SiteIds : sPc[s] = "unstarted"}
         ELSE unstartedAtCancel
    /\ cancelledBeforeRun' = (cancelledBeforeRun \/ sePc = "start")
    /\ UNCHANGED <<cfgMaxRetries, maxRetries, scConcurrency, sites, sePc, seBatch,
                   seResults, sPc, attempts, fetches, sErr,
                   onlyTimeouts>>
    /\ UNCHANGED <<rwc, runnerVars, batchVars, extractVars, sf, cs, single, ui, cks>>

\* The response arrives: non-2xx throws "HTTP error <status>", 2xx goes on to
\* response.text().
S_Response(s, ok) ==
    /\ sPc[s] = "fetch"
    /\ ~Aborted(s)
    /\ IF ok
       THEN /\ sPc' = [sPc EXCEPT ![s] = "body"]
            /\ UNCHANGED <<cfgMaxRetries, maxRetries, scConcurrency, ctlAborted, sites,
                           sePc, seBatch, seResults, attempts, sigAborted, fetches,
                           sErr, onlyTimeouts, unstartedAtCancel,
                   cancelledBeforeRun>>
            /\ UNCHANGED <<rwc, runnerVars, batchVars, extractVars, sf, cs, single, ui, cks>>
       ELSE Catch(s, "http")

\* The per-attempt timer aborts the fetch.
S_Timeout(s) ==
    /\ sPc[s] = "fetch"
    /\ ~Aborted(s)
    /\ Catch(s, "timeout")

S_NetworkError(s) ==
    /\ sPc[s] = "fetch"
    /\ ~Aborted(s)
    /\ Catch(s, "network")

\* The signal this attempt was given is aborted: fetch or text() rejects.
S_Aborted(s) ==
    /\ InFlight(s)
    /\ Aborted(s)
    /\ Catch(s, "cancelled")

S_BodyRead(s, html) ==
    /\ sPc[s] = "body"
    /\ ~Aborted(s)
    /\ Settle(s, [success |-> TRUE, emails |-> ScraperExtractEmails(html), error |-> "none"])
    /\ sigAborted' = [sigAborted EXCEPT ![s] = FALSE]
    /\ Record(s, "ok")
    /\ UNCHANGED <<cfgMaxRetries, maxRetries, scConcurrency, ctlAborted, sites, sePc,
                   seBatch, attempts, fetches, sErr, unstartedAtCancel,
                   cancelledBeforeRun>>
    /\ UNCHANGED <<rwc, runnerVars, batchVars, extractVars, sf, cs, single, ui, cks>>

S_BodyFails(s) ==
    /\ sPc[s] = "body"
    /\ ~Aborted(s)
    /\ Catch(s, "body")

\* The host stops sending after the headers; the timer was cleared when fetch
\* returned, so only cancel() can still end response.text().
S_BodyStalls(s) ==
    /\ sPc[s] = "body"
    /\ ~Aborted(s)
    /\ sPc' = [sPc EXCEPT ![s] = "bodyStalled"]
    /\ UNCHANGED <<cfgMaxRetries, maxRetries, scConcurrency, ctlAborted, sites,
                   sePc, seBatch, seResults, attempts, sigAborted, fetches,
                   sErr, onlyTimeouts, unstartedAtCancel,
                   cancelledBeforeRun>>
    /\ UNCHANGED <<rwc, runnerVars, batchVars, extractVars, sf, cs, single, ui, cks>>

\* The retryDelay timer fires: the while test holds, the next fetch is issued
\* with the signal of the controller that is current now.
S_RetryDelayElapsed(s) ==
    /\ sPc[s] = "retryWait"
    /\ attempts[s] <= maxRetries
    /\ sPc' = [sPc EXCEPT ![s] = "fetch"]
    /\ sigAborted' = [sigAborted EXCEPT ![s] = ctlAborted]
    /\ fetches' = [fetches EXCEPT ![s] = @ + 1]
    /\ sErr' = [sErr EXCEPT ![s] = "none"]
    /\ UNCHANGED <<cfgMaxRetries, maxRetries, scConcurrency, ctlAborted, sites,
                   sePc, seBatch, seResults, attempts,
                   onlyTimeouts, unstartedAtCancel, cancelledBeforeRun>>
    /\ UNCHANGED <<rwc, runnerVars, batchVars, extractVars, sf, cs, single, ui, cks>>

InitScraper ==
    /\ cfgMaxRetries \in {<<>>} \cup {<<m>> : m \in 0..MaxRetriesCfg}
    /\ maxRetries = EffectiveMaxRetries(cfgMaxRetries)
    /\ scConcurrency \in 1..MaxScConcurrency
    /\ ctlAborted = FALSE
    /\ \E n \in 0..MaxSites :
        /\ sites = [k \in 1..n |-> k]
        /\ sPc = [k \in 1..n |-> "unstarted"]
        /\ attempts = [k \in 1..n |-> 0]
        /\ sigAborted = [k \in 1..n |-> FALSE]
        /\ fetches = [k \in 1..n |-> 0]
        /\ sErr = [k \in 1..n |-> "none"]
        /\ onlyTimeouts = [k \in 1..n |-> TRUE]
    /\ sePc = "start"
    /\ seBatch = 0
    /\ seResults = <<>>
    /\ unstartedAtCancel = {}
    /\ cancelledBeforeRun = FALSE
    /\ rwc = <<>>
    /\ RunnerIdle
    /\ BatchIdle
    /\ ExtractIdle
    /\ SafeFetchIdle
    /\ SignalIdle
    /\ SingletonIdle
    /\ FinderIdle
    /\ CheckSiteIdle

NextScraper ==
    \/ SE_Call
    \/ SE_BatchDone
    \/ Cancel
    \/ \E s \in SiteIds : \E ok \in BOOLEAN : S_Response(s, ok)
    \/ \E s \in SiteIds : S_Timeout(s)
    \/ \E s \in SiteIds : S_NetworkError(s)
    \/ \E s \in SiteIds : S_Aborted(s)
    \/ \E s \in SiteIds : \E html \in Bodies : S_BodyRead(s, html)
    \/ \E s \in SiteIds : S_BodyFails(s)
    \/ \E s \in SiteIds : S_BodyStalls(s)
    \/ \E s \in SiteIds : S_RetryDelayElapsed(s)

\* A sites list longer than the concurrency, so that it takes several batches.
\* Largest sites list of such a run.
WideSites == 3

InitScraperWide ==
    /\ cfgMaxRetries \in {<<>>} \cup {<<m>> : m \in 0..MaxRetriesCfg}
    /\ maxRetries = EffectiveMaxRetries(cfgMaxRetries)
    /\ scConcurrency \in 1..MaxScConcurrency
    /\ ctlAborted = FALSE
    /\ sites = [k \in 1..WideSites |-> k]
    /\ sPc = [k \in 1..WideSites |-> "unstarted"]
    /\ attempts = [k \in 1..WideSites |-> 0]
    /\ sigAborted = [k \in 1..WideSites |-> FALSE]
    /\ fetches = [k \in 1..WideSites |-> 0]
    /\ sErr = [k \in 1..WideSites |-> "none"]
    /\ onlyTimeouts = [k \in 1..WideSites |-> TRUE]
    /\ sePc = "start"
    /\ seBatch = 0
    /\ seResults = <<>>
    /\ unstartedAtCancel = {}
    /\ cancelledBeforeRun = FALSE
    /\ rwc = <<>>
    /\ RunnerIdle
    /\ BatchIdle
    /\ ExtractIdle
    /\ SafeFetchIdle
    /\ SignalIdle
    /\ SingletonIdle
    /\ FinderIdle
    /\ CheckSiteIdle

SpecScraperWide == InitScraperWide /\ [][NextScraper]_vars

SpecScraper == InitScraper /\ [][NextScraper]_vars

\* ------------------------------------- fetchWithTimeout and its two signals
\* One attempt: pc is where fetchWithTimeout stands, timer the setTimeout that
\* calls timeoutController.abort(), tsig timeoutController.signal.aborted,
\* combined the aborted flag of the signal handed to fetch, and onCancel /
\* onTimer whether the once-listener on either source is still registered.
NotStarted ==
    [pc |-> "idle", timer |-> "off", tsig |-> FALSE, combined |-> FALSE,
     onCancel |-> FALSE, onTimer |-> FALSE]

\* createCombinedAbortSignal paying no attention to a source already aborted.
AbortedAtCreationIgnored(cancelAborted) == FALSE

\* if (signal.aborted) { controller.abort(signal.reason); break; } for the
\* cancel signal, the first of the two sources; the timeout signal, created
\* the line before, is not aborted yet.
AbortedAtCreation(cancelAborted) == cancelAborted

\* createCombinedAbortSignal(options.signal, timeoutController.signal): an
\* aborted source aborts the new controller and ends the loop, any other
\* source gets a listener.
createCombinedAbortSignal(cancelAborted) ==
    [combined |-> AbortedAtCreation(cancelAborted),
     onCancel |-> ~cancelAborted,
     onTimer |-> ~cancelAborted]

\* finally { clearTimeout(timeoutId) }
ClearTimeout(t) == IF t = "armed" THEN "cleared" ELSE t

\* fetchWithTimeout up to its await: timer set, signals combined, fetch called.
W_Call(n) ==
    /\ cs.att[n].pc = "idle"
    /\ LET c == createCombinedAbortSignal(cs.cancel)
       IN cs' = [cs EXCEPT !.att[n] =
                    [pc |-> "fetching", timer |-> "armed", tsig |-> FALSE,
                     combined |-> c.combined, onCancel |-> c.onCancel,
                     onTimer |-> c.onTimer]]
    /\ UNCHANGED <<rwc, runnerVars, batchVars, scraperVars, extractVars, sf, single, ui, cks>>

\* The caller's signal is aborted: its listeners run, once each.
W_CancelFires ==
    /\ ~cs.cancel
    /\ cs' = [cancel |-> TRUE,
              att |-> [n \in 1..Len(cs.att) |->
                         IF cs.att[n].onCancel
                         THEN [cs.att[n] EXCEPT !.combined = TRUE, !.onCancel = FALSE]
                         ELSE cs.att[n]]]
    /\ UNCHANGED <<rwc, runnerVars, batchVars, scraperVars, extractVars, sf, single, ui, cks>>

\* The timeout elapses: timeoutController.abort(), and its listener runs.
W_TimerFires(n) ==
    /\ cs.att[n].timer = "armed"
    /\ cs' = [cs EXCEPT !.att[n] =
                 [@ EXCEPT !.timer = "fired", !.tsig = TRUE,
                           !.combined = @ \/ cs.att[n].onTimer, !.onTimer = FALSE]]
    /\ UNCHANGED <<rwc, runnerVars, batchVars, scraperVars, extractVars, sf, single, ui, cks>>

\* fetch settles on its own (a response, or a network failure): finally.
W_FetchSettles(n) ==
    /\ cs.att[n].pc = "fetching"
    /\ cs' = [cs EXCEPT !.att[n].pc = "settled", !.att[n].timer = ClearTimeout(@)]
    /\ UNCHANGED <<rwc, runnerVars, batchVars, scraperVars, extractVars, sf, single, ui, cks>>

\* fetch rejects because its signal is aborted: finally.
W_FetchAborted(n) ==
    /\ cs.att[n].pc = "fetching"
    /\ cs.att[n].combined
    /\ cs' = [cs EXCEPT !.att[n].pc = "aborted", !.att[n].timer = ClearTimeout(@)]
    /\ UNCHANGED <<rwc, runnerVars, batchVars, scraperVars, extractVars, sf, single, ui, cks>>

InitSignal ==
    /\ \E n \in 1..MaxAttempts : cs = [cancel |-> FALSE, att |-> [k \in 1..n |-> NotStarted]]
    /\ rwc = <<>>
    /\ RunnerIdle
    /\ BatchIdle
    /\ ScraperIdle
    /\ ExtractIdle
    /\ SafeFetchIdle
    /\ SingletonIdle
    /\ FinderIdle
    /\ CheckSiteIdle

NextSignal ==
    \/ \E n \in 1..Len(cs.att) : W_Call(n)
    \/ W_CancelFires
    \/ \E n \in 1..Len(cs.att) : W_TimerFires(n)
    \/ \E n \in 1..Len(cs.att) : W_FetchSettles(n)
    \/ \E n \in 1..Len(cs.att) : W_FetchAborted(n)

SpecSignal == InitSignal /\ [][NextSignal]_vars

\* ------------------------------- scrapeEmailsFromSites and scraperInstance
\* config.concurrency || 10
DefaultConcurrency == 10

\* A config as a caller passes it: each option absent (<<>>) or given (<<n>>).
PassedConfigs ==
    [concurrency : {<<>>} \cup {<<c>> : c \in 1..MaxScConcurrency},
     maxRetries : {<<>>} \cup {<<m>> : m \in 0..MaxRetriesCfg}]

\* new EmailScraper(config): this.config, the defaults filled in.
NewEmailScraper(config) ==
    [concurrency |-> IF config.concurrency = <<>> THEN DefaultConcurrency
                     ELSE config.concurrency[1],
     maxRetries |-> EffectiveMaxRetries(config.maxRetries)]

\* getEmailScraper(config): the instance is built by the first call only.
getEmailScraper(instance, config) ==
    IF instance = <<>> THEN <<NewEmailScraper(config)>> ELSE instance

\* scrapeEmailsFromSites(sites, config), call number k: scraper.scrapeEmails
\* runs with the config of the scraper that getEmailScraper returned.
G_Call(k) ==
    /\ k = Len(single.ran) + 1
    /\ k <= Len(single.calls)
    /\ LET scraper == getEmailScraper(single.instance, single.calls[k])
       IN single' = [single EXCEPT !.instance = scraper,
                                   !.ran = Append(@, scraper[1])]
    /\ UNCHANGED <<rwc, runnerVars, batchVars, scraperVars, extractVars, sf, cs, ui, cks>>

InitSingleton ==
    /\ \E n \in 1..MaxRuns : \E cfgs \in [1..n -> PassedConfigs] :
        single = [instance |-> <<>>, calls |-> cfgs, ran |-> <<>>]
    /\ rwc = <<>>
    /\ RunnerIdle
    /\ BatchIdle
    /\ ScraperIdle
    /\ ExtractIdle
    /\ SafeFetchIdle
    /\ SignalIdle
    /\ FinderIdle
    /\ CheckSiteIdle

NextSingleton == \E k \in 1..MaxRuns : G_Call(k)

SpecSingleton == InitSingleton /\ [][NextSingleton]_vars

\* ------------------------------------------ EComDataFinder: fetchWebsites
\* sampleData.length
SampleLen == 5

\* The component after its first render and its effect: the state hooks at
\* their initial values, phase "ready" when localStorage held saved results.
\* pc is where fetchWebsites stands, failed whether error is not "", shown
\* what websiteData holds, stored whether localStorage holds FULL_RESULTS,
\* sites initialData.length, pending the sites of initialData whose
\* checkWebsite has not resolved, active those it found isDomainActive.
Mounted(saved) ==
    [pc |-> "idle",
     phase |-> IF saved THEN "ready" ELSE "idle",
     loading |-> FALSE,
     checkingFilters |-> FALSE,
     failed |-> FALSE,
     shown |-> IF saved THEN "saved" ELSE "none",
     stored |-> saved,
     sites |-> 0,
     pending |-> {},
     active |-> {}]

\* disabled={loading || checkingFilters}
ButtonDisabled(u) == u.loading \/ u.checkingFilters

\* finally { setCheckingFilters(false); setPhase("ready"); }
fetchWebsitesFinally(u) ==
    [u EXCEPT !.checkingFilters = FALSE, !.phase = "ready", !.pc = "idle", !.pending = {}]

\* catch (err): the error message, the sample data shown and, when
\* localStorage takes it, saved.
fetchWebsitesCatch(u, saves) ==
    [u EXCEPT !.failed = TRUE, !.shown = "sample", !.stored = @ \/ saves]

\* onClick={fetchWebsites}, up to the await on fetch.
U_Click ==
    /\ ui.pc = "idle"
    /\ ~ButtonDisabled(ui)
    /\ ui' = [ui EXCEPT !.pc = "awaitFetch", !.phase = "fetching", !.loading = TRUE,
                        !.failed = FALSE, !.stored = FALSE, !.shown = "none",
                        !.sites = 0, !.active = {}]
    /\ UNCHANGED <<rwc, runnerVars, batchVars, scraperVars, extractVars, sf, cs, single, cks>>

\* fetch("http://localhost:8787/getWebsites") rejects: catch, then finally.
U_FetchThrows(saves) ==
    /\ ui.pc = "awaitFetch"
    /\ ui' = fetchWebsitesFinally(fetchWebsitesCatch(ui, saves))
    /\ UNCHANGED <<rwc, runnerVars, batchVars, scraperVars, extractVars, sf, cs, single, cks>>

\* fetch fulfils, whatever the status: response.json() is awaited.
U_Responds ==
    /\ ui.pc = "awaitFetch"
    /\ ui' = [ui EXCEPT !.pc = "awaitJson"]
    /\ UNCHANGED <<rwc, runnerVars, batchVars, scraperVars, extractVars, sf, cs, single, cks>>

\* response.json() settles with a list of n websites (n = 0: an empty list, a
\* value without length, or a body that does not parse, which the inner catch
\* swallows): the initial data is shown and every site's check is started.
U_Parsed(n) ==
    /\ ui.pc = "awaitJson"
    /\ ui' = [ui EXCEPT !.pc = "awaitChecks", !.shown = "initial",
                        !.phase = "checking", !.loading = FALSE,
                        !.checkingFilters = TRUE,
                        !.sites = IF n > 0 THEN n ELSE SampleLen,
                        !.pending = 1..(IF n > 0 THEN n ELSE SampleLen)]
    /\ UNCHANGED <<rwc, runnerVars, batchVars, scraperVars, extractVars, sf, cs, single, cks>>

\* checkWebsite(site.link) resolves, with the flags it drew at random: its
\* timer fired; it never rejects.
U_CheckDone(i, isDomainActive) ==
    /\ ui.pc = "awaitChecks"
    /\ i \in ui.pending
    /\ ui' = [ui EXCEPT !.pending = @ \ {i},
                        !.active = IF isDomainActive THEN @ \cup {i} ELSE @]
    /\ UNCHANGED <<rwc, runnerVars, batchVars, scraperVars, extractVars, sf, cs, single, cks>>

\* Promise.all resolves: the enriched data is shown and saved, then finally;
\* when localStorage.setItem throws, catch comes first.
U_AllChecked(saves, savesSample) ==
    /\ ui.pc = "awaitChecks"
    /\ ui.pending = {}
    /\ LET enriched == [ui EXCEPT !.shown = "enriched"]
       IN ui' = IF saves
                THEN fetchWebsitesFinally([enriched EXCEPT !.stored = TRUE])
                ELSE fetchWebsitesFinally(fetchWebsitesCatch(enriched, savesSample))
    /\ UNCHANGED <<rwc, runnerVars, batchVars, scraperVars, extractVars, sf, cs, single, cks>>

InitFinder ==
    /\ \E saved \in BOOLEAN : ui = Mounted(saved)
    /\ rwc = <<>>
    /\ RunnerIdle
    /\ BatchIdle
    /\ ScraperIdle
    /\ ExtractIdle
    /\ SafeFetchIdle
    /\ SignalIdle
    /\ SingletonIdle
    /\ CheckSiteIdle

NextFinder ==
    \/ U_Click
    \/ \E saves \in BOOLEAN : U_FetchThrows(saves)
    \/ U_Responds
    \/ \E n \in 0..MaxRawSites : U_Parsed(n)
    \/ \E i \in 1..SampleLen : \E isDomainActive \in BOOLEAN : U_CheckDone(i, isDomainActive)
    \/ \E saves, savesSample \in BOOLEAN : U_AllChecked(saves, savesSample)

SpecFinder == InitFinder /\ [][NextFinder]_vars

\* ------------------------------------------------------ POST /checkSite
\* setTimeout(() => controller.abort(), 7000), in seconds.
AbortAfterSec == 7

\* loadsFast = duration <= 5000, in seconds.
FastLimitSec == 5

\* The bodies a client may post: with a url, without one, or not JSON.
RequestBodies == {"url", "noUrl", "notJson"}

\* One request: pc is where the handler stands, timer the 7 s setTimeout,
\* elapsed the whole seconds since start = Date.now(), isDomainActive and
\* loadsFast the handler's two variables, ended how the fetch ended, and reply
\* what the handler answered: "result" is c.json({isDomainActive, loadsFast}).
Received(body) ==
    [pc |-> "idle", body |-> body, timer |-> "off", elapsed |-> 0,
     isDomainActive |-> FALSE, loadsFast |-> FALSE, ended |-> "none",
     reply |-> "none"]

\* loadsFast decided by the duration alone, whatever the status.
OnResponseSpeedFirst(ok, duration) ==
    [isDomainActive |-> ok, loadsFast |-> duration <= FastLimitSec]

\* if (res.ok) { isDomainActive = true; loadsFast = duration <= 5000; }
OnResponse(ok, duration) ==
    [isDomainActive |-> ok, loadsFast |-> ok /\ duration <= FastLimitSec]

\* finally { clearTimeout(timeout) }, then return c.json({...}).
AnswerResult(r, how) ==
    [r EXCEPT !.pc = "answered", !.ended = how, !.reply = "result",
              !.timer = IF @ = "armed" THEN "cleared" ELSE @]

\* The request arrives: the handler awaits c.req.json().
K_Request(n) ==
    /\ cks[n].pc = "idle"
    /\ cks' = [cks EXCEPT ![n].pc = "awaitJson"]
    /\ UNCHANGED <<rwc, runnerVars, batchVars, scraperVars, extractVars, sf, cs, single, ui>>

\* c.req.json() fulfils: without a url the answer is 400 "Missing URL",
\* otherwise the timer is set and fetch is called.
K_BodyParsed(n) ==
    /\ cks[n].pc = "awaitJson"
    /\ cks[n].body # "notJson"
    /\ cks' = IF cks[n].body = "noUrl"
              THEN [cks EXCEPT ![n].pc = "answered", ![n].reply = "missingUrl"]
              ELSE [cks EXCEPT ![n].pc = "awaitFetch", ![n].timer = "armed"]
    /\ UNCHANGED <<rwc, runnerVars, batchVars, scraperVars, extractVars, sf, cs, single, ui>>

\* c.req.json() rejects: the outer catch answers 400 "Invalid request".
K_BodyRejected(n) ==
    /\ cks[n].pc = "awaitJson"
    /\ cks[n].body = "notJson"
    /\ cks' = [cks EXCEPT ![n].pc = "answered", ![n].reply = "invalidRequest"]
    /\ UNCHANGED <<rwc, runnerVars, batchVars, scraperVars, extractVars, sf, cs, single, ui>>

\* A second passes while the fetch is pending; at 7 s the timer is due.
K_Tick(n) ==
    /\ cks[n].pc = "awaitFetch"
    /\ cks[n].elapsed < AbortAfterSec
    /\ cks' = [cks EXCEPT ![n].elapsed = @ + 1]
    /\ UNCHANGED <<rwc, runnerVars, batchVars, scraperVars, extractVars, sf, cs, single, ui>>

\* fetch fulfils with a response, 2xx or not: the handler runs to its answer.
K_Response(n, ok) ==
    /\ cks[n].pc = "awaitFetch"
    /\ LET set == OnResponse(ok, cks[n].elapsed)
       IN cks' = [cks EXCEPT ![n] =
                     AnswerResult([@ EXCEPT !.isDomainActive = set.isDomainActive,
                                            !.loadsFast = set.loadsFast],
                                  IF ok THEN "ok" ELSE "non2xx")]
    /\ UNCHANGED <<rwc, runnerVars, batchVars, scraperVars, extractVars, sf, cs, single, ui>>

\* fetch rejects (DNS, refused connection, a url fetch cannot parse): the
\* inner catch warns, and the handler runs to its answer.
K_FetchFails(n) ==
    /\ cks[n].pc = "awaitFetch"
    /\ cks' = [cks EXCEPT ![n] = AnswerResult(@, "networkError")]
    /\ UNCHANGED <<rwc, runnerVars, batchVars, scraperVars, extractVars, sf, cs, single, ui>>

\* The 7 s timer fires: controller.abort() rejects the pending fetch, the
\* inner catch warns, and the handler runs to its answer.
K_TimerFires(n) ==
    /\ cks[n].pc = "awaitFetch"
    /\ cks[n].timer = "armed"
    /\ cks[n].elapsed = AbortAfterSec
    /\ cks' = [cks EXCEPT ![n] = AnswerResult([@ EXCEPT !.timer = "fired"], "aborted")]
    /\ UNCHANGED <<rwc, runnerVars, batchVars, scraperVars, extractVars, sf, cs, single, ui>>

InitCheckSite ==
    /\ \E n \in 1..MaxChecks : cks \in [1..n -> {Received(b) : b \in RequestBodies}]
    /\ rwc = <<>>
    /\ RunnerIdle
    /\ BatchIdle
    /\ ScraperIdle
    /\ ExtractIdle
    /\ SafeFetchIdle
    /\ SignalIdle
    /\ SingletonIdle
    /\ FinderIdle

NextCheckSite ==
    \/ \E n \in 1..Len(cks) : K_Request(n)
    \/ \E n \in 1..Len(cks) : K_BodyParsed(n)
    \/ \E n \in 1..Len(cks) : K_BodyRejected(n)
    \/ \E n \in 1..Len(cks) : K_Tick(n)
    \/ \E n \in 1..Len(cks) : \E ok \in BOOLEAN : K_Response(n, ok)
    \/ \E n \in 1..Len(cks) : K_FetchFails(n)
    \/ \E n \in 1..Len(cks) : K_TimerFires(n)

SpecCheckSite == InitCheckSite /\ [][NextCheckSite]_vars

\* ------------------------------------------------------------- properties
\* Number of entries of a sequence of results that are for this link.
CountLink(rs, l) == Cardinality({p \in 1..Len(rs) : rs[p].link = l})

Ceil(a, b) == (a + b - 1) \div b

RECURSIVE Flatten(_)
Flatten(ss) == IF ss = <<>> THEN <<>> ELSE Flatten(SubSeq(ss, 1, Len(ss) - 1)) \o ss[Len(ss)]

\* C1: at every moment of a runWithConcurrency call with limit >= 1, the
\* workers that hold a slot (admitted and not finished) are counted exactly by
\* activeCount, and there are at most limit of them.
C1_ActiveAtMostLimit ==
    \A c \in 1..Len(rwc) :
        /\ rwc[c].activeCount = Cardinality(Running(rwc[c]))
        /\ rwc[c].activeCount <= rwc[c].limit

\* C1 witness: the window is full (limit >= 2 handlers hold a slot, one of
\* them inside its handler) while unstarted items wait.
C1_Witness ==
    /\ hPc = "awaiting"
    /\ rwc[1].limit >= 2
    /\ rwc[1].activeCount = rwc[1].limit
    /\ rwc[1].index < Len(rwc[1].items)
    /\ \E k \in 1..Len(rwc[1].items) : rwc[1].hpc[k] = "handler"

\* C2: when runWithConcurrency resolves, its result sequence holds exactly
\* one result for every input item, whether the handlers returned or threw.
C2_OneResultPerItem ==
    hPc = "resolved" =>
        /\ Len(hOut) = Len(hItems)
        /\ \A k \in 1..Len(hItems) :
            Cardinality({p \in 1..Len(hOut) : hOut[p] = hItems[k]}) = 1

\* The result scrapeEmails holds for a site that processSite settled.
ResultOf(s) == seResults[CHOOSE p \in 1..Len(seResults) : seResults[p].url = sites[s]]

\* C3: for every configured maxRetries >= 0, 0 included, processSite makes at
\* most maxRetries + 1 fetch calls for a site, and exactly that many, with a
\* failed result, when every attempt timed out.
C3_AtMostConfiguredAttempts ==
    cfgMaxRetries # <<>> =>
        \A s \in SiteIds :
            /\ fetches[s] <= cfgMaxRetries[1] + 1
            /\ (sPc[s] = "done" /\ onlyTimeouts[s]) =>
                /\ fetches[s] = cfgMaxRetries[1] + 1
                /\ ~ResultOf(s).success

\* C4: a site whose first attempt got a non-2xx response is not fetched
\* again: processSite stops after that one fetch.
C4_NoRetryAfterHttpError ==
    [][\A s \in SiteIds :
         (sPc[s] = "retryWait" /\ attempts[s] = 1 /\ sErr[s] = "http")
             => fetches'[s] = fetches[s]]_vars

\* C5: a site whose fetch was in flight when cancel() was called, and ended
\* as cancelled, is not fetched again.
C5_NoFetchAfterCancel ==
    [][\A s \in SiteIds :
         (sPc[s] = "retryWait" /\ sErr[s] = "cancelled")
             => fetches'[s] = fetches[s]]_vars

\* C6: a site that had not started when cancel() was called during
\* scrapeEmails is never fetched.
C6_UnstartedStayUnfetched == \A s \in unstartedAtCancel : fetches[s] = 0

\* C7: processUrlBatch cannot come to a halt before it has returned: as long
\* as it has not returned, some timer or network event is still due (every
\* run is finite, so this is what "eventually returns" amounts to).
C7_NeverStuckBeforeReturn == pbPc = "returned" \/ ENABLED NextBatch

\* C8: while a later chunk exists, every earlier chunk's runWithConcurrency
\* call has resolved and all of its handlers have finished, so handlers of two
\* chunks are never in flight together.
C8_ChunksStrictlySequential ==
    \A c \in 1..Len(rwc) :
        c < Len(rwc) =>
            /\ rwc[c].resolved > 0
            /\ \A k \in 1..Len(rwc[c].items) : rwc[c].hpc[k] = "done"

\* C8 witness: a handler of the second chunk is fetching.
C8_Witness ==
    /\ Len(rwc) >= 2
    /\ Len(rwc[1].items) >= 2
    /\ \E k \in 1..Len(rwc[2].items) : rwc[2].hpc[k] = "fetch"

\* C9: in the list processUrlBatch returns every entry holds an email, every
\* link was handled once, and a link is in the list once, with the emails its
\* handler returned, if those are not empty, and not at all otherwise.
C9_ExactlyTheLinksWithEmails ==
    pbPc = "returned" =>
        /\ \A p \in 1..Len(allResults) : Len(allResults[p].emails) > 0
        /\ \A l \in Range(links) :
            \E c \in 1..Len(rwc) :
                /\ CountLink(rwc[c].results, l) = 1
                /\ \A d \in 1..Len(rwc) : d # c => CountLink(rwc[d].results, l) = 0
                /\ \A q \in 1..Len(rwc[c].results) :
                    rwc[c].results[q].link = l =>
                        IF Len(rwc[c].results[q].emails) > 0
                        THEN /\ CountLink(allResults, l) = 1
                             /\ \E p \in 1..Len(allResults) :
                                 allResults[p] = rwc[c].results[q]
                        ELSE CountLink(allResults, l) = 0

\* C9 witness: two links, the first with one address on its page among .png
\* noise, the second without a result; the list returned is the first alone.
C9_Witness ==
    /\ pbPc = "returned"
    /\ Len(links) = 2
    /\ badUrls = {}
    /\ allResults = <<[link |-> 1, emails |-> <<W_contact>>]>>

\* C10: the chunks handed to runWithConcurrency are the consecutive slices of
\* batchSize links, in input order, only the last possibly shorter; once
\* processUrlBatch has returned they are ceil(n / batchSize) chunks that
\* together are the input list.
C10_ConsecutiveChunks ==
    /\ \A c \in 1..Len(rwc) :
        /\ rwc[c].items # <<>>
        /\ rwc[c].items = [p \in 1..Min(batchSize, Len(links) - (c - 1) * batchSize)
                             |-> links[(c - 1) * batchSize + p]]
    /\ pbPc = "returned" =>
        /\ Len(rwc) = Ceil(Len(links), batchSize)
        /\ Flatten([c \in 1..Len(rwc) |-> rwc[c].items]) = links

\* C10 witness: 5 links with batchSize 2 were processed as chunks of 2, 2, 1.
C10_Witness ==
    /\ pbPc = "returned"
    /\ Len(links) = 5
    /\ batchSize = 2
    /\ [c \in 1..Len(rwc) |-> Len(rwc[c].items)] = <<2, 2, 1>>

\* No two entries of a list of addresses are equal once lower-cased.
NoCaseDuplicates(es) ==
    \A p, q \in 1..Len(es) : toLowerCase(es[p]) = toLowerCase(es[q]) => p = q

\* C11: for every page body, neither the batch processor's extractEmails nor
\* EmailScraper.extractEmails returns two entries that are equal when compared
\* without regard to case.
C11_NoCaseInsensitiveDuplicates ==
    /\ "batch" \in exDone => NoCaseDuplicates(exBatchOut)
    /\ "scraper" \in exDone => NoCaseDuplicates(exScraperOut)

\* C12: for every page body and every configured excludePatterns, no address
\* returned by EmailScraper.extractEmails contains, compared without regard to
\* case, a built-in exclusion or a configured one.
C12_NoExcludedSubstring ==
    "scraper" \in exDone =>
        \A p \in 1..Len(exScraperOut) :
            \A pat \in Range(EMAIL_EXCLUSIONS) \cup Range(cfgExcludePatterns) :
                ~Includes(toLowerCase(exScraperOut[p]), toLowerCase(pat))

\* C12 witness: with "@G" configured, a page holding an upper-case .PNG name,
\* an address at g and an address at h yields the address at h alone.
C12_Witness ==
    /\ "scraper" \in exDone
    /\ cfgExcludePatterns = << <<"@", "G">> >>
    /\ exHtml = <<W_PNG, W_contact, W_info>>
    /\ exScraperOut = <<W_info>>

\* Some step of processSite for site s: a network event or its retry timer.
ProcessSiteStep(s) ==
    \/ \E ok \in BOOLEAN : S_Response(s, ok)
    \/ S_Timeout(s)
    \/ S_NetworkError(s)
    \/ S_Aborted(s)
    \/ \E html \in Bodies : S_BodyRead(s, html)
    \/ S_BodyFails(s)
    \/ S_BodyStalls(s)
    \/ S_RetryDelayElapsed(s)

ResultsFor(s) == {p \in 1..Len(seResults) : seResults[p].url = sites[s]}

\* C13: processSite, once called, cannot come to a halt before it has
\* resolved (without cancel() its own events always lead on), and it resolves
\* with exactly one result: no error when success, no emails and an error
\* message when not.
C13_AlwaysOneWellFormedResult ==
    \A s \in SiteIds :
        /\ sPc[s] \notin {"unstarted", "done"} => ENABLED ProcessSiteStep(s)
        /\ Cardinality(ResultsFor(s)) = IF sPc[s] = "done" THEN 1 ELSE 0
        /\ sPc[s] = "done" =>
            IF ResultOf(s).success
            THEN ResultOf(s).error = "none"
            ELSE ResultOf(s).emails = <<>> /\ ResultOf(s).error # "none"

\* C14: the scraper's current signal is never left aborted, cancel() included,
\* and every fetch that starts is given a signal that is not aborted.
C14_FreshSignalAfterCancel ==
    /\ [](~ctlAborted)
    /\ [][\A s \in SiteIds : fetches'[s] > fetches[s] => ~sigAborted'[s]]_vars

\* C14 witness: cancel() was called before scrapeEmails, and the run that
\* followed fetched every site once and succeeded for each.
C14_Witness ==
    /\ cancelledBeforeRun
    /\ sePc = "returned"
    /\ Len(sites) = MaxSites
    /\ \A s \in SiteIds : fetches[s] = 1 /\ ResultOf(s).success

\* C15: the number of delayBetweenBatches waits is one less than the number
\* of chunks started so far while a chunk runs, equal to it during a wait
\* (which only follows a resolved chunk that is not the last), and k - 1 for
\* k >= 1 chunks once processUrlBatch has returned.
C15_DelayBetweenChunksOnly ==
    /\ pbPc = "awaitRun" => delays = Len(rwc) - 1
    /\ pbPc = "sleep" =>
        /\ delays = Len(rwc)
        /\ rwc[Len(rwc)].resolved > 0
        /\ Len(rwc) < Ceil(Len(links), batchSize)
    /\ pbPc = "returned" =>
        /\ Len(rwc) = Ceil(Len(links), batchSize)
        /\ delays = IF Len(rwc) = 0 THEN 0 ELSE Len(rwc) - 1

\* C15 witness: three chunks were processed with two waits.
C15_Witness ==
    /\ pbPc = "returned"
    /\ Len(rwc) = 3
    /\ delays = 2

\* The chunk a link was processed in.
ChunkOf(l) == CHOOSE c \in 1..Len(rwc) : l \in Range(rwc[c].items)

\* C16: in allResults an entry of an earlier chunk always precedes an entry of
\* a later chunk, and the returned list is, chunk after chunk, the entries with
\* emails in the order in which the chunk's handlers completed.
C16_ChunkOrderKept ==
    /\ \A p, q \in 1..Len(allResults) :
        p < q => ChunkOf(allResults[p].link) <= ChunkOf(allResults[q].link)
    /\ pbPc = "returned" =>
        allResults = Flatten([c \in 1..Len(rwc) |-> KeepWithEmails(rwc[c].results)])

\* C16 witness: with chunks <<1, 2>> and <<3>>, link 2 completed before link 1
\* and the list returned is 2, 1, 3.
C16_Witness ==
    /\ pbPc = "returned"
    /\ batchSize = 2
    /\ [p \in 1..Len(allResults) |-> allResults[p].link] = <<2, 1, 3>>

\* safeFetch calls still awaited, and requests still on the network.
Awaited == {n \in 1..Len(sf) : sf[n].pc = "racing"}

OnTheWire == {n \in 1..Len(sf) : sf[n].fetch = "pending"}

\* C17: once safeFetch has returned because its deadline elapsed, the request
\* of that call is no longer in flight, so the requests in flight are never
\* more than the safeFetch calls still awaited.
C17_NoRequestLeftInFlight ==
    /\ \A n \in 1..Len(sf) :
        (sf[n].pc = "returned" /\ sf[n].out = "timedOut") => sf[n].fetch # "pending"
    /\ Cardinality(OnTheWire) <= Cardinality(Awaited)

\* C18: a link whose url is empty or not http* is never fetched (its worker
\* goes from the jitter delay straight to done), has no entry in allResults,
\* and once processUrlBatch has returned every link, those of its chunk
\* included, was handled once.
C18_BadUrlNeverFetched ==
    /\ \A c \in 1..Len(rwc) : \A k \in 1..Len(rwc[c].items) :
        rwc[c].items[k] \in badUrls =>
            rwc[c].hpc[k] \in {"unstarted", "delay", "done"}
    /\ \A l \in badUrls : CountLink(allResults, l) = 0
    /\ pbPc = "returned" =>
        \A l \in Range(links) :
            Cardinality({c \in 1..Len(rwc) : CountLink(rwc[c].results, l) = 1}) = 1

\* C18 witness: links 1 and 2 share a chunk, link 1 has a bad url, and the
\* list returned is the entry of link 2.
C18_Witness ==
    /\ pbPc = "returned"
    /\ links = <<1, 2>>
    /\ batchSize = 2
    /\ badUrls = {1}
    /\ allResults = <<[link |-> 2, emails |-> <<W_contact>>]>>

\* C19: a call of cancel() ends the retryDelay wait of every site that is
\* waiting between two attempts: after the call none of them is still waiting
\* for a retry.
C19_CancelEndsRetryWait ==
    [][Cancel => \A s \in SiteIds : sPc[s] = "retryWait" => sPc'[s] # "retryWait"]_vars

Stalled(r) == {k \in 1..Len(r.items) : r.hpc[k] = "stalled"}

\* While items are unstarted the window is full.
WindowFull(r) == r.index < Len(r.items) => r.activeCount = Min(r.limit, Len(r.items))

AllOthersDone(r) == \A k \in 1..Len(r.items) : k \notin Stalled(r) => r.hpc[k] = "done"

\* C20, as amended: while unstarted items remain exactly min(limit, n)
\* handlers are active, and with limit >= 2 a single handler that never
\* finishes cannot keep the other items from being started and completed: the
\* run can only come to rest with all of them done.
C20_SlidingWindow ==
    \A c \in 1..Len(rwc) :
        /\ WindowFull(rwc[c])
        /\ (Cardinality(Stalled(rwc[c])) = 1 /\ rwc[c].limit >= 2 /\ ~ENABLED NextRunner)
            => AllOthersDone(rwc[c])

\* C20 witness: limit 2, one handler never finishes, and the run has come to
\* rest with the three other items done.
C20_Witness ==
    /\ Len(rwc) = 1
    /\ rwc[1].limit = 2
    /\ Len(rwc[1].items) = 4
    /\ Stalled(rwc[1]) = {1}
    /\ ~ENABLED NextRunner
    /\ AllOthersDone(rwc[1])

\* C20, as stated: the same for every limit, limit 1 included.
C20_SlidingWindowAnyLimit ==
    \A c \in 1..Len(rwc) :
        /\ WindowFull(rwc[c])
        /\ (Cardinality(Stalled(rwc[c])) = 1 /\ ~ENABLED NextRunner)
            => AllOthersDone(rwc[c])

\* The items of a run whose handler threw: done, and nothing pushed for them.
Thrown(r) == {k \in 1..Len(r.items) : r.hpc[k] = "done" /\ r.items[k] \notin Range(r.results)}

\* C22: a handler that throws gives its slot back exactly once (activeCount
\* is the number of handlers not yet finished), and does not stop the run:
\* unless some handler never finishes, a run in which a handler threw comes to
\* rest only resolved, with every item handled.
C22_ThrowDoesNotStopTheRun ==
    \A c \in 1..Len(rwc) :
        /\ rwc[c].activeCount = Cardinality(Running(rwc[c]))
        /\ (Thrown(rwc[c]) # {} /\ Stalled(rwc[c]) = {} /\ ~ENABLED NextRunner)
            => /\ hPc = "resolved"
               /\ \A k \in 1..Len(rwc[c].items) : rwc[c].hpc[k] = "done"

\* C22 witness: of three items the second one's handler threw, and the run
\* resolved with the two others.
C22_Witness ==
    /\ hPc = "resolved"
    /\ Len(hItems) = 3
    /\ hOut = <<1, 3>>
    /\ Thrown(rwc[1]) = {2}
    /\ rwc[1].activeCount = 0

\* C23: runWithConcurrency resolves at most once, and only with every item
\* started and no handler active.
C23_ResolvesOnceWhenAllFinished ==
    \A c \in 1..Len(rwc) :
        /\ rwc[c].resolved <= 1
        /\ rwc[c].resolved > 0 =>
            /\ rwc[c].index = Len(rwc[c].items)
            /\ rwc[c].activeCount = 0
            /\ Running(rwc[c]) = {}

\* C23 witness: a run of four items with limit 3 has resolved, once.
C23_Witness ==
    /\ Len(rwc) = 1
    /\ rwc[1].resolved = 1
    /\ Len(rwc[1].items) = 4
    /\ rwc[1].limit = 3
    /\ hPc = "resolved"

\* C28: a run whose handlers all finish cannot come to rest before the
\* caller's await has continued, whatever the length of the items list, and
\* for the empty list the caller receives the empty result list.
C28_ResolvesForEveryList ==
    /\ hPc = "resolved" \/ ENABLED NextRunner
        \/ \E c \in 1..Len(rwc) : Stalled(rwc[c]) # {}
    /\ (hPc = "resolved" /\ hItems = <<>>) => hOut = <<>>

\* C27: the emails of an entry returned by processUrlBatch are what the batch
\* processor's extractEmails returned for the page; none of them contains,
\* compared without regard to case, an exclusion of the default policy.
C27_BatchEntriesRespectDefaultPolicy ==
    "batch" \in exDone =>
        \A p \in 1..Len(exBatchOut) :
            \A pat \in Range(EMAIL_EXCLUSIONS) :
                ~Includes(toLowerCase(exBatchOut[p]), toLowerCase(pat))

\* The sites whose processSite call has been made and has not resolved.
Called == {s \in SiteIds : sPc[s] \notin {"unstarted", "done"}}

\* C21: scrapeEmails admits by sliding window: while it awaits and sites are
\* unstarted, min(concurrency, number of sites) processSite calls are under
\* way, so a site that has finished has been replaced by the next one without
\* waiting for the others still in flight.
C21_ScraperSlidingWindow ==
    (/\ sePc = "awaitAll"
     /\ Called # {}
     /\ \E s \in SiteIds : sPc[s] = "unstarted")
        => Cardinality(Called) = Min(scConcurrency, Len(sites))

\* C29: never more than `concurrency` processSite calls are under way, and
\* scrapeEmails returns one result for each entry of sites, no more, no less.
C29_OneResultPerSiteWithinConcurrency ==
    /\ Cardinality(Called) <= scConcurrency
    /\ sePc = "returned" =>
        /\ Len(seResults) = Len(sites)
        /\ \A s \in SiteIds : Cardinality(ResultsFor(s)) = 1

\* C29 witness: two sites taken one at a time; one failed, the other was read
\* and held no address; both have their result.
C29_Witness ==
    /\ sePc = "returned"
    /\ Len(sites) = 2
    /\ scConcurrency = 1
    /\ \E p, q \in 1..Len(seResults) :
        /\ ~seResults[p].success
        /\ seResults[q].success /\ seResults[q].emails = <<>>

IsPrefix(a, b) == Len(a) <= Len(b) /\ SubSeq(b, 1, Len(a)) = a

\* The handlers whose res.text() stays pending for ever.
BodyStalled == {<<c, k>> \in Calls \X (1..MaxLinks) : k \in Positions(c) /\ rwc[c].hpc[k] = "stalled"}

\* C24: a link whose every fetch fails does not end processUrlBatch: unless a
\* body read hangs, it cannot come to rest before it has returned; when it
\* returns every chunk has been handed to runWithConcurrency and the failed
\* link has no entry; and no step ever takes an entry out of allResults.
C24_FailedChunkDoesNotStopTheBatch ==
    /\ []((pbPc # "returned" /\ BodyStalled = {}) => ENABLED NextBatch)
    /\ [](pbPc = "returned" =>
            /\ Len(rwc) = Ceil(Len(links), batchSize)
            /\ \A l \in downHosts : CountLink(allResults, l) = 0)
    /\ [][IsPrefix(allResults, allResults')]_vars

\* C24 witness: three chunks of one link; the host of the second link is
\* down, the third chunk is being fetched and the first chunk's entry is kept.
C24_Witness ==
    /\ Len(links) = 3
    /\ batchSize = 1
    /\ downHosts = {2}
    /\ Len(rwc) = 3
    /\ rwc[2].results = <<[link |-> 2, emails |-> <<>>]>>
    /\ rwc[3].hpc[1] = "fetch"
    /\ allResults = <<[link |-> 1, emails |-> <<W_contact>>]>>

\* C25: from the moment fetchWithTimeout has called fetch, the signal it
\* passed is aborted exactly when the caller's cancel signal is aborted or the
\* attempt's timer has fired, whichever of the two came first, whether the
\* cancel signal was aborted before or after the call, and whether or not the
\* timer is still pending.
C25_CombinedSignalIsTheOr ==
    \A n \in 1..Len(cs.att) :
        cs.att[n].pc # "idle" =>
            (cs.att[n].combined <=> (cs.cancel \/ cs.att[n].tsig))

\* C25 witness: one attempt was under way, its timer pending, when the cancel
\* signal was aborted; a second attempt was started after that; both fetches
\* hold an aborted signal and neither timer has fired.
C25_Witness ==
    /\ Len(cs.att) >= 2
    /\ cs.cancel
    /\ cs.att[1].pc = "fetching" /\ cs.att[1].timer = "armed"
    /\ cs.att[1].combined /\ ~cs.att[1].onCancel /\ cs.att[1].onTimer
    /\ cs.att[2].pc = "fetching" /\ cs.att[2].timer = "armed"
    /\ cs.att[2].combined /\ ~cs.att[2].onTimer

\* C26: every call of scrapeEmailsFromSites runs with the configuration that
\* was passed to that call.
C26_EachCallRunsWithItsOwnConfig ==
    \A k \in 1..Len(single.ran) : single.ran[k] = NewEmailScraper(single.calls[k])

\* C30: whenever phase is "ready", loading and checkingFilters are both false
\* and the Fetch Websites button is enabled, however the run ended.
C30_ReadyMeansButtonEnabled ==
    ui.phase = "ready" =>
        /\ ~ui.loading
        /\ ~ui.checkingFilters
        /\ ~ButtonDisabled(ui)

\* C31: /checkSite never has loadsFast without isDomainActive; once fetch has
\* been called the handler answers with the result object only, in which
\* isDomainActive says that the fetch returned a 2xx response (which it can
\* only do before the abort), and loadsFast that it did so within 5 s; after a
\* timeout, a network error or a non-2xx response both are false.
C31_LoadsFastOnlyWhenActive ==
    \A n \in 1..Len(cks) :
        /\ ~(cks[n].loadsFast /\ ~cks[n].isDomainActive)
        /\ cks[n].ended = "ok" => cks[n].timer # "fired"
        /\ (cks[n].pc = "answered" /\ cks[n].ended # "none") =>
            /\ cks[n].reply = "result"
            /\ cks[n].isDomainActive <=> cks[n].ended = "ok"
            /\ cks[n].loadsFast <=>
                (cks[n].ended = "ok" /\ cks[n].elapsed <= FastLimitSec)
        /\ (cks[n].pc = "answered" /\ cks[n].body = "url") => cks[n].ended # "none"

\* C31 witness: one request was answered after a 2xx response that took 6 s,
\* active and not fast; another ran into the 7 s abort and was answered with
\* both flags false.
C31_Witness ==
    /\ Len(cks) = 2
    /\ cks[1].reply = "result" /\ cks[1].ended = "ok" /\ cks[1].elapsed = 6
    /\ cks[1].isDomainActive /\ ~cks[1].loadsFast
    /\ cks[2].reply = "result" /\ cks[2].ended = "aborted" /\ cks[2].timer = "fired"
    /\ ~cks[2].isDomainActive /\ ~cks[2].loadsFast

====
